---- MODULE Spec2Model ----
(***************************************************************************)
(* Model of analyzers/python_analyzer.py: the ComplexityVisitor, the       *)
(* CohesionAnalyzer and analyze_file.                                      *)
(*                                                                         *)
(* A syntax tree is a sequence of node records in pre-order.  Node 1 is    *)
(* the root; parent is the index of the parent (0 for the root), so the    *)
(* children of a node, in field order, are the later nodes naming it as    *)
(* parent, in increasing index.  A node carries what the analyzer reads:   *)
(*   kind    the ast class name                                            *)
(*   name    FunctionDef/AsyncFunctionDef/ClassDef .name, Attribute .attr  *)
(*   n       len(BoolOp.values), len(comprehension.ifs), len(Import.names) *)
(*   id      for an Attribute whose .value is an ast.Name, that Name's id; *)
(*           "" when the receiver is any other expression                  *)
(*   lineno  the source line of the node                                   *)
(* Leaves and wrappers no visitor has a handler for (Name, Constant, Load, *)
(* arguments, alias, Expr, ...) are left out of the sequence unless they   *)
(* are listed in a label set below; operands of a BoolOp or filters of a   *)
(* comprehension that are such leaves are counted by n only.               *)
(***************************************************************************)
EXTENDS Integers, Sequences, FiniteSets, TLC

VARIABLES
    pc,               \* position of the running code
    file,             \* the file system entry and what the parser makes of it
    source,           \* analyze_file: source
    tree,             \* analyze_file: tree (or the node handed to a visitor)
    functions,        \* analyze_file: functions
    classes,          \* analyze_file: classes
    imports,          \* analyze_file: imports
    function_metrics, \* analyze_file: function_metrics
    class_cohesion,   \* analyze_file: class_cohesion
    result,           \* the value analyze_file returns
    complexity,       \* ComplexityVisitor.complexity
    analyzer,         \* CohesionAnalyzer: current_method, methods, instance_vars, method_vars
    stack,            \* the Python call stack of CohesionAnalyzer.visit
    score             \* what cohesion_score() returned

vars == <<pc, file, source, tree, functions, classes, imports, function_metrics,
          class_cohesion, result, complexity, analyzer, stack, score>>

(***************************************************************************)
(* Bounds of the model.                                                    *)
(***************************************************************************)
MaxFunctionNodes == 4
MaxClassNodes == 4
MaxModuleNodes == 5
MaxSourceLen == 3

None == "None"

(***************************************************************************)
(* Syntax trees.                                                           *)
(***************************************************************************)
Node(kind, name, n, id) ==
    [kind |-> kind, parent |-> 0, name |-> name, n |-> n, id |-> id, lineno |-> 1]

Children(t, p) == {i \in DOMAIN t : t[i].parent = p}

RECURSIVE SetToSeq(_)
\* the elements of a set of indices, in increasing order
SetToSeq(S) ==
    IF S = {} THEN <<>>
    ELSE LET m == CHOOSE x \in S : \A y \in S : x <= y
         IN <<m>> \o SetToSeq(S \ {m})

\* ast.iter_child_nodes: the children in field order
iter_child_nodes(t, p) == SetToSeq(Children(t, p))

RECURSIVE Ancestors(_, _)
\* the proper ancestors of node i
Ancestors(t, i) ==
    IF t[i].parent = 0 THEN {} ELSE {t[i].parent} \cup Ancestors(t, t[i].parent)

Descendants(t, p) == {i \in DOMAIN t : p \in Ancestors(t, i)}

ExprKinds == {"BoolOp", "IfExp", "comprehension", "Compare", "Attribute"}
LeafKinds == {"Import", "ImportFrom"}

\* What the grammar lets node p of t take as a further child labelled l.
MayAdopt(t, p, l) ==
    LET k == t[p].kind
        c == Cardinality(Children(t, p))
    IN  /\ k \notin LeafKinds
        /\ (k \in ExprKinds \cup {"Assert"}) => l.kind \in ExprKinds
        /\ k = "BoolOp" => c < t[p].n
        /\ k = "IfExp" => c < 3
        /\ k = "comprehension" => c < t[p].n + 2
        /\ k = "Compare" => c < 2
        /\ k = "Attribute" => (t[p].id = "" /\ c < 1)

\* ast.parse builds one more node of the tree: a node labelled from L is
\* appended under the last node or one of its ancestors (pre-order), while the
\* tree has fewer than max nodes.
GrowTree(L, max) ==
    /\ pc = "parse"
    /\ Len(tree) < max
    /\ \E l \in L, p \in {Len(tree)} \cup Ancestors(tree, Len(tree)) :
          /\ MayAdopt(tree, p, l)
          /\ tree' = Append(tree, [l EXCEPT !.parent = p, !.lineno = Len(tree) + 1])

(***************************************************************************)
(* ComplexityVisitor.                                                      *)
(***************************************************************************)
\* visit_If, visit_For, visit_While, visit_ExceptHandler, visit_With,
\* visit_Assert, visit_IfExp: self.complexity += 1
UnitKinds == {"If", "For", "While", "ExceptHandler", "With", "Assert", "IfExp"}

\* Increment with visit_BoolOp adding one per operand
IncrementPerOperand(node) ==
    CASE node.kind \in UnitKinds -> 1
      [] node.kind = "comprehension" -> IF node.n # 0 THEN node.n ELSE 0
      [] node.kind = "BoolOp" -> node.n
      [] OTHER -> 0

\* what the handler of the node's kind adds to self.complexity before it
\* calls generic_visit; a kind without a handler adds nothing
Increment(node) ==
    CASE node.kind \in UnitKinds -> 1
      [] node.kind = "comprehension" -> IF node.n # 0 THEN node.n ELSE 0
      [] node.kind = "BoolOp" -> node.n - 1
      [] OTHER -> 0

RECURSIVE ComplexityVisit(_, _, _)
RECURSIVE ComplexityVisitAll(_, _, _)
\* NodeVisitor.visit(node) on a ComplexityVisitor whose complexity is c: the
\* handler of the node's kind, each of which ends with generic_visit(node);
\* a kind without a handler goes to generic_visit directly
ComplexityVisit(c, t, i) ==
    ComplexityVisitAll(c + Increment(t[i]), t, iter_child_nodes(t, i))

\* NodeVisitor.generic_visit: visit each child in turn
ComplexityVisitAll(c, t, kids) ==
    IF kids = <<>> THEN c
    ELSE ComplexityVisitAll(ComplexityVisit(c, t, Head(kids)), t, Tail(kids))

\* ComplexityVisitor(): self.complexity = 1
BaseComplexity == 1

(***************************************************************************)
(* CohesionAnalyzer.  Its four fields are one record; the recursion of     *)
(* visit / generic_visit is an explicit stack of frames, one per node      *)
(* being visited: the node, its children still to visit, whether the       *)
(* frame is a _handle_function call, and that call's local old_method.     *)
(***************************************************************************)
EmptyMap == [m \in {} |-> {}]

\* CohesionAnalyzer.__init__
NewCohesionAnalyzer ==
    [current_method |-> None, methods |-> {}, instance_vars |-> {},
     method_vars |-> EmptyMap]

\* _handle_function up to its generic_visit call
EnterFunction(a, node) ==
    [a EXCEPT !.current_method = node.name,
              !.methods = @ \cup {node.name},
              !.method_vars = [m \in DOMAIN @ \cup {node.name} |->
                                  IF m = node.name THEN {} ELSE @[m]]]

\* LeaveFunction clearing the marker instead of restoring it
LeaveFunctionToNone(a, old_method) == [a EXCEPT !.current_method = None]

\* _handle_function after its generic_visit call
LeaveFunction(a, old_method) == [a EXCEPT !.current_method = old_method]

\* visit_Attribute up to its generic_visit call
VisitAttribute(a, node) ==
    IF a.current_method # None /\ node.id = "self"
    THEN [a EXCEPT !.instance_vars = @ \cup {node.name},
                   !.method_vars[a.current_method] = @ \cup {node.name}]
    ELSE a

FunctionKinds == {"FunctionDef", "AsyncFunctionDef"}

RECURSIVE SumOfSizes(_, _)
\* sum(len(vars_) for vars_ in self.method_vars.values())
SumOfSizes(mv, keys) ==
    IF keys = {} THEN 0
    ELSE LET k == CHOOSE x \in keys : TRUE
         IN Cardinality(mv[k]) + SumOfSizes(mv, keys \ {k})

\* the float 1.0, as a fraction
One == [num |-> 1, den |-> 1]

\* cohesion_score: a float, kept as the fraction actual_uses / total_possible
cohesion_score(a) ==
    IF a.methods = {} \/ a.instance_vars = {} THEN One
    ELSE LET total_possible == Cardinality(a.methods) * Cardinality(a.instance_vars)
             actual_uses == SumOfSizes(a.method_vars, DOMAIN a.method_vars)
         IN IF total_possible > 0
            THEN [num |-> actual_uses, den |-> total_possible]
            ELSE One

RECURSIVE CohesionVisit(_, _, _)
RECURSIVE CohesionVisitAll(_, _, _)
\* NodeVisitor.visit(node) on a CohesionAnalyzer in state a, run to its end
CohesionVisit(a, t, i) ==
    CASE t[i].kind \in FunctionKinds ->
            LeaveFunction(
                CohesionVisitAll(EnterFunction(a, t[i]), t, iter_child_nodes(t, i)),
                a.current_method)
      [] t[i].kind = "Attribute" ->
            CohesionVisitAll(VisitAttribute(a, t[i]), t, iter_child_nodes(t, i))
      [] OTHER -> CohesionVisitAll(a, t, iter_child_nodes(t, i))

\* NodeVisitor.generic_visit
CohesionVisitAll(a, t, kids) ==
    IF kids = <<>> THEN a
    ELSE CohesionVisitAll(CohesionVisit(a, t, Head(kids)), t, Tail(kids))

(***************************************************************************)
(* SpecCC: one ComplexityVisitor applied to one function node              *)
(* (analyze_file lines 151-152), for every function tree within the bound. *)
(***************************************************************************)
NoFile ==
    [path |-> "", exists |-> FALSE, readable |-> FALSE, parse |-> "ok",
     detail |-> "", text |-> <<>>]

NoResult == [k \in {} |-> 0]

\* the variables of analyze_file, before it has run
FileIdle ==
    /\ file = NoFile /\ source = <<>> /\ functions = <<>> /\ classes = <<>>
    /\ imports = <<>> /\ function_metrics = <<>> /\ class_cohesion = <<>>
    /\ result = NoResult

FileVars == <<file, source, functions, classes, imports, function_metrics,
              class_cohesion, result>>

CohIdle == analyzer = NewCohesionAnalyzer /\ stack = <<>> /\ score = One

CohVars == <<analyzer, stack, score>>

\* the node kinds a function body is drawn from: every kind with a handler,
\* and kinds without one
FunctionLabels ==
    {Node(k, "", 0, "") : k \in UnitKinds \cup {"AsyncFor", "AsyncWith", "Compare"}}
    \cup {Node("comprehension", "", n, "") : n \in 0..2}
    \cup {Node("BoolOp", "", n, "") : n \in 2..3}
    \cup {Node("FunctionDef", "g", 0, "")}

InitCC ==
    /\ pc = "parse"
    /\ tree \in {<<Node(k, "f", 0, "")>> : k \in FunctionKinds}
    /\ complexity = BaseComplexity
    /\ FileIdle /\ CohIdle

GrowFunction ==
    GrowTree(FunctionLabels, MaxFunctionNodes) /\ UNCHANGED <<pc, complexity, FileVars, CohVars>>

\* visitor = ComplexityVisitor(); visitor.visit(func)
VisitFunction ==
    /\ pc = "parse"
    /\ complexity' = ComplexityVisit(BaseComplexity, tree, 1)
    /\ pc' = "visited"
    /\ UNCHANGED <<tree, FileVars, CohVars>>

NextCC == GrowFunction \/ VisitFunction

SpecCC == InitCC /\ [][NextCC]_vars

(***************************************************************************)
(* SpecCoh: one CohesionAnalyzer applied to one class node (analyze_file   *)
(* lines 162-166), step by step, for every class tree within the bound.    *)
(***************************************************************************)
ClassLabels ==
    {Node("FunctionDef", "f", 0, ""), Node("FunctionDef", "g", 0, ""),
     Node("AsyncFunctionDef", "f", 0, ""),
     Node("Attribute", "a", 0, "self"), Node("Attribute", "b", 0, "self"),
     Node("Attribute", "a", 0, "other"), Node("Attribute", "b", 0, ""),
     Node("If", "", 0, "")}

Frame(t, i, handler, old) ==
    [node |-> i, kids |-> iter_child_nodes(t, i), handler |-> handler,
     old_method |-> old]

Top == stack[Len(stack)]

\* the stack with the first remaining child of the top frame taken off it
Advance == [stack EXCEPT ![Len(stack)].kids = Tail(@)]

InitCoh ==
    /\ pc = "parse"
    /\ tree = <<Node("ClassDef", "C", 0, "")>>
    /\ complexity = BaseComplexity
    /\ FileIdle /\ CohIdle

GrowClass ==
    GrowTree(ClassLabels, MaxClassNodes) /\ UNCHANGED <<pc, complexity, FileVars, CohVars>>

\* analyzer = CohesionAnalyzer(); analyzer.visit(cls): a ClassDef has no
\* handler, so this is generic_visit(cls)
StartVisit ==
    /\ pc = "parse"
    /\ analyzer' = NewCohesionAnalyzer
    /\ stack' = <<Frame(tree, 1, "generic_visit", None)>>
    /\ pc' = "visit"
    /\ UNCHANGED <<tree, score, complexity, FileVars>>

\* generic_visit reaches a FunctionDef child: visit_FunctionDef
visit_FunctionDef ==
    /\ pc = "visit" /\ stack # <<>> /\ Top.kids # <<>>
    /\ LET c == Head(Top.kids) IN
        /\ tree[c].kind = "FunctionDef"
        /\ analyzer' = EnterFunction(analyzer, tree[c])
        /\ stack' = Append(Advance,
                            Frame(tree, c, "_handle_function", analyzer.current_method))
    /\ UNCHANGED <<pc, tree, score, complexity, FileVars>>

\* generic_visit reaches an AsyncFunctionDef child: visit_AsyncFunctionDef
visit_AsyncFunctionDef ==
    /\ pc = "visit" /\ stack # <<>> /\ Top.kids # <<>>
    /\ LET c == Head(Top.kids) IN
        /\ tree[c].kind = "AsyncFunctionDef"
        /\ analyzer' = EnterFunction(analyzer, tree[c])
        /\ stack' = Append(Advance,
                            Frame(tree, c, "_handle_function", analyzer.current_method))
    /\ UNCHANGED <<pc, tree, score, complexity, FileVars>>

\* generic_visit reaches an Attribute child: visit_Attribute
visit_Attribute ==
    /\ pc = "visit" /\ stack # <<>> /\ Top.kids # <<>>
    /\ LET c == Head(Top.kids) IN
        /\ tree[c].kind = "Attribute"
        /\ analyzer' = VisitAttribute(analyzer, tree[c])
        /\ stack' = Append(Advance, Frame(tree, c, "visit_Attribute", None))
    /\ UNCHANGED <<pc, tree, score, complexity, FileVars>>

\* generic_visit reaches a child of a kind without a handler
generic_visit ==
    /\ pc = "visit" /\ stack # <<>> /\ Top.kids # <<>>
    /\ LET c == Head(Top.kids) IN
        /\ tree[c].kind \notin FunctionKinds \cup {"Attribute"}
        /\ stack' = Append(Advance, Frame(tree, c, "generic_visit", None))
    /\ UNCHANGED <<pc, tree, analyzer, score, complexity, FileVars>>

\* the generic_visit of the top frame has no child left: the handler returns
Return ==
    /\ pc = "visit" /\ stack # <<>> /\ Top.kids = <<>>
    /\ analyzer' = IF Top.handler = "_handle_function"
                    THEN LeaveFunction(analyzer, Top.old_method)
                    ELSE analyzer
    /\ stack' = SubSeq(stack, 1, Len(stack) - 1)
    /\ UNCHANGED <<pc, tree, score, complexity, FileVars>>

\* analyzer.cohesion_score()
CohesionScore ==
    /\ pc = "visit" /\ stack = <<>>
    /\ score' = cohesion_score(analyzer)
    /\ pc' = "scored"
    /\ UNCHANGED <<tree, analyzer, stack, complexity, FileVars>>

NextCoh ==
    \/ GrowClass
    \/ StartVisit
    \/ visit_FunctionDef
    \/ visit_AsyncFunctionDef
    \/ visit_Attribute
    \/ generic_visit
    \/ Return
    \/ CohesionScore

SpecCoh == InitCoh /\ [][NextCoh]_vars

\* the step-by-step traversal ends in the state the recursion computes
StepsAgreeWithRecursion ==
    pc = "scored" => analyzer = CohesionVisit(NewCohesionAnalyzer, tree, 1)

(***************************************************************************)
(* Spec: analyze_file, from the path to the returned dict.                 *)
(*                                                                         *)
(* Text is a sequence of characters.  A float rounded to d decimals is     *)
(* kept as the integer number of 10^-d units: cohesion values are in       *)
(* thousandths (1.0 is 1000), avgComplexity in hundredths.  A formatted    *)
(* message is the pair of its fixed prefix and the interpolated value.     *)
(***************************************************************************)
\* a code character, the comment sign, a blank, and the one line boundary
Chars == {"x", "#", " ", "\n"}

\* the texts a file may hold
Sources == UNION {[1..k -> Chars] : k \in 0..MaxSourceLen}

\* the text of the files that parse: "x", a blank line, an indented comment
SampleSource == <<"x", "\n", "\n", " ", "#">>

Files ==
    {[NoFile EXCEPT !.path = p] : p \in {"a.py", "b.py"}}
    \cup {[NoFile EXCEPT !.path = "a.py", !.exists = TRUE, !.detail = d] :
             d \in {"Is a directory", "Permission denied"}}
    \cup {[NoFile EXCEPT !.path = "a.py", !.exists = TRUE, !.readable = TRUE,
                         !.parse = e, !.detail = "invalid syntax", !.text = t] :
             e \in {"SyntaxError", "RecursionError"}, t \in Sources}
    \cup {[NoFile EXCEPT !.path = "a.py", !.exists = TRUE, !.readable = TRUE,
                         !.text = SampleSource]}

RECURSIVE SplitFrom(_, _)
\* str.splitlines, the line in progress being cur: a line ends at "\n", and
\* what follows the last "\n" is a line when it is not empty
SplitFrom(s, cur) ==
    IF s = <<>> THEN (IF cur = <<>> THEN <<>> ELSE <<cur>>)
    ELSE IF Head(s) = "\n" THEN <<cur>> \o SplitFrom(Tail(s), <<>>)
    ELSE SplitFrom(Tail(s), Append(cur, Head(s)))

splitlines(s) == SplitFrom(s, <<>>)

RECURSIVE lstrip(_)
lstrip(l) == IF l # <<>> /\ Head(l) = " " THEN lstrip(Tail(l)) ELSE l

RECURSIVE rstrip(_)
rstrip(l) ==
    IF l # <<>> /\ l[Len(l)] = " " THEN rstrip(SubSeq(l, 1, Len(l) - 1)) ELSE l

\* str.strip
strip(l) == rstrip(lstrip(l))

\* l.strip() and not l.strip().startswith('#')
IsLogicalLine(l) == strip(l) # <<>> /\ Head(strip(l)) # "#"

RECURSIVE LogicalLines(_)
\* [l for l in lines if l.strip() and not l.strip().startswith('#')]
LogicalLines(lines) ==
    IF lines = <<>> THEN <<>>
    ELSE (IF IsLogicalLine(Head(lines)) THEN <<Head(lines)>> ELSE <<>>)
         \o LogicalLines(Tail(lines))

\* loc = len([...])
LogicalLoc(s) == Len(LogicalLines(splitlines(s)))

\* RawLoc counting the logical lines only
RawLocLogical(s) == LogicalLoc(s)

\* len(source.splitlines())
RawLoc(s) == Len(splitlines(s))

\* round(num / den * scale), halves going to the even neighbour
Round(num, den, scale) ==
    LET q == (num * scale) \div den
        r == (num * scale) % den
    IN IF 2 * r > den \/ (2 * r = den /\ q % 2 = 1) THEN q + 1 ELSE q

RECURSIVE WalkFrom(_, _)
\* ast.walk: take the first node off the queue, put its children at the end
WalkFrom(t, todo) ==
    IF todo = <<>> THEN <<>>
    ELSE <<Head(todo)>> \o WalkFrom(t, Tail(todo) \o iter_child_nodes(t, Head(todo)))

\* walk stopping below the top level
walkTopLevel(t) == <<1>> \o iter_child_nodes(t, 1)

walk(t) == WalkFrom(t, <<1>>)

RECURSIVE Select(_, _, _)
\* the nodes of q, in order, whose kind is in K
Select(t, q, K) ==
    IF q = <<>> THEN <<>>
    ELSE (IF t[Head(q)].kind \in K THEN <<Head(q)>> ELSE <<>>) \o Select(t, Tail(q), K)

\* one entry of function_metrics
FunctionMetric(t, f) ==
    [name |-> t[f].name, cc |-> ComplexityVisit(BaseComplexity, t, f),
     line |-> t[f].lineno]

\* one entry of class_cohesion
ClassMetric(t, c) ==
    LET a == CohesionVisit(NewCohesionAnalyzer, t, c)
        sc == cohesion_score(a)
    IN [name |-> t[c].name, cohesion |-> Round(sc.num, sc.den, 1000),
        methods |-> Cardinality(a.methods), fields |-> Cardinality(a.instance_vars)]

RECURSIVE FanOut(_, _)
\* the loop over imports
FanOut(t, imps) ==
    IF imps = <<>> THEN 0
    ELSE (IF t[Head(imps)].kind = "Import" THEN t[Head(imps)].n ELSE 1)
         + FanOut(t, Tail(imps))

RECURSIVE SumCc(_)
\* sum(f["cc"] for f in function_metrics)
SumCc(fm) == IF fm = <<>> THEN 0 ELSE Head(fm).cc + SumCc(Tail(fm))

\* MaxCc taking the first entry
MaxCcFirst(fm) == IF fm = <<>> THEN 0 ELSE Head(fm).cc

RECURSIVE MaxCc(_)
\* max((f["cc"] for f in function_metrics), default=0)
MaxCc(fm) ==
    IF fm = <<>> THEN 0
    ELSE IF Len(fm) = 1 THEN Head(fm).cc
    ELSE LET m == MaxCc(Tail(fm)) IN IF Head(fm).cc > m THEN Head(fm).cc ELSE m

RECURSIVE SumCohesion(_)
\* sum(c["cohesion"] for c in class_cohesion)
SumCohesion(cc) == IF cc = <<>> THEN 0 ELSE Head(cc).cohesion + SumCohesion(Tail(cc))

\* threshold = 10
threshold == 10

\* IsComplex with the threshold included
IsComplexInclusive(f) == f.cc >= threshold

\* f["cc"] > threshold
IsComplex(f) == f.cc > threshold

RECURSIVE ComplexNames(_)
\* [f["name"] for f in function_metrics if f["cc"] > threshold]
ComplexNames(fm) ==
    IF fm = <<>> THEN <<>>
    ELSE (IF IsComplex(Head(fm)) THEN <<Head(fm).name>> ELSE <<>>) \o ComplexNames(Tail(fm))

\* the dict returned for a SyntaxError
SyntaxErrorReport(f, src) ==
    [filePath |-> f.path, error |-> <<"Syntax error: ", f.detail>>,
     language |-> "python", loc |-> RawLoc(src), functionCount |-> 0,
     totalComplexity |-> 0, maxComplexity |-> 0, cohesion |-> 1000, fanOut |-> 0,
     complexFunctions |-> <<>>]

Init ==
    /\ pc = "start"
    /\ file \in Files
    /\ source = <<>> /\ tree = <<>>
    /\ functions = <<>> /\ classes = <<>> /\ imports = <<>>
    /\ function_metrics = <<>> /\ class_cohesion = <<>>
    /\ result = NoResult
    /\ complexity = BaseComplexity
    /\ CohIdle

\* if not path.exists(): return {"error": ...}
CheckExists ==
    /\ pc = "start"
    /\ IF file.exists
       THEN pc' = "read" /\ UNCHANGED result
       ELSE pc' = "done" /\ result' = [error |-> <<"File not found: ", file.path>>]
    /\ UNCHANGED <<file, source, tree, functions, classes, imports,
                   function_metrics, class_cohesion, complexity, CohVars>>

\* source = path.read_text(...), except Exception: return {"error": ...}
ReadText ==
    /\ pc = "read"
    /\ IF file.readable
       THEN pc' = "call_parse" /\ source' = file.text /\ UNCHANGED result
       ELSE /\ pc' = "done" /\ UNCHANGED source
            /\ result' = [error |-> <<"Cannot read file: ", file.detail>>]
    /\ UNCHANGED <<file, tree, functions, classes, imports,
                   function_metrics, class_cohesion, complexity, CohVars>>

\* tree = ast.parse(source), except SyntaxError: return {...}; any other
\* exception of the parser leaves analyze_file
Parse ==
    /\ pc = "call_parse"
    /\ CASE file.parse = "SyntaxError" ->
               pc' = "done" /\ result' = SyntaxErrorReport(file, source) /\ UNCHANGED tree
         [] file.parse = "ok" ->
               pc' = "parse" /\ tree' = <<Node("Module", "", 0, "")>> /\ UNCHANGED result
         [] OTHER ->
               pc' = "raised" /\ UNCHANGED <<tree, result>>
    /\ UNCHANGED <<file, source, functions, classes, imports,
                   function_metrics, class_cohesion, complexity, CohVars>>

\* the node kinds a module is drawn from
ModuleLabels ==
    {Node("FunctionDef", "f", 0, ""), Node("AsyncFunctionDef", "g", 0, ""),
     Node("ClassDef", "C", 0, ""), Node("Import", "", 2, ""),
     Node("ImportFrom", "", 0, ""), Node("If", "", 0, ""),
     Node("BoolOp", "", 10, ""), Node("Attribute", "a", 0, "self")}

GrowModule ==
    GrowTree(ModuleLabels, MaxModuleNodes)
    /\ UNCHANGED <<pc, file, source, functions, classes, imports, function_metrics,
                   class_cohesion, result, complexity, CohVars>>

\* for node in ast.walk(tree): ...
CollectNodes ==
    /\ pc = "parse"
    /\ LET nodes == walk(tree) IN
        /\ functions' = Select(tree, nodes, FunctionKinds)
        /\ classes' = Select(tree, nodes, {"ClassDef"})
        /\ imports' = Select(tree, nodes, {"Import", "ImportFrom"})
    /\ pc' = "collected"
    /\ UNCHANGED <<file, source, tree, function_metrics, class_cohesion, result,
                   complexity, CohVars>>

\* for func in functions: ...; for cls in classes: ...
ComputeMetrics ==
    /\ pc = "collected"
    /\ function_metrics' =
           [k \in 1..Len(functions) |-> FunctionMetric(tree, functions[k])]
    /\ class_cohesion' = [k \in 1..Len(classes) |-> ClassMetric(tree, classes[k])]
    /\ pc' = "scored"
    /\ UNCHANGED <<file, source, tree, functions, classes, imports, result,
                   complexity, CohVars>>

\* fan-out, line counts, totals and the returned dict
Report ==
    /\ pc = "scored"
    /\ LET total_cc == SumCc(function_metrics)
           avg_cohesion ==
               IF class_cohesion # <<>>
               THEN Round(SumCohesion(class_cohesion), Len(class_cohesion), 1)
               ELSE 1000
       IN result' =
            [filePath |-> file.path, language |-> "python",
             loc |-> LogicalLoc(source),
             functionCount |-> Len(functions), classCount |-> Len(classes),
             totalComplexity |-> total_cc,
             maxComplexity |-> MaxCc(function_metrics),
             avgComplexity |-> IF functions # <<>>
                               THEN Round(total_cc, Len(functions), 100) ELSE 0,
             cohesion |-> avg_cohesion,
             fanOut |-> FanOut(tree, imports),
             complexFunctions |-> ComplexNames(function_metrics),
             functions |-> function_metrics, classes |-> class_cohesion]
    /\ pc' = "done"
    /\ UNCHANGED <<file, source, tree, functions, classes, imports, function_metrics,
                   class_cohesion, complexity, CohVars>>

Next ==
    \/ CheckExists
    \/ ReadText
    \/ Parse
    \/ GrowModule
    \/ CollectNodes
    \/ ComputeMetrics
    \/ Report

Spec == Init /\ [][Next]_vars

(***************************************************************************)
(* Properties.  What a property expects is computed from the tree as a     *)
(* whole, by counting nodes, not by traversing it.                         *)
(***************************************************************************)
RECURSIVE SumN(_, _)
\* the sum of the n field over a set of nodes
SumN(t, S) ==
    IF S = {} THEN 0
    ELSE LET i == CHOOSE x \in S : TRUE IN t[i].n + SumN(t, S \ {i})

OfKind(t, S, K) == {i \in S : t[i].kind \in K}

\* what one node contributes to a cyclomatic complexity
Weight(node) ==
    IF node.kind \in {"If", "For", "While", "ExceptHandler", "With", "Assert", "IfExp"}
    THEN 1
    ELSE IF node.kind = "comprehension" THEN node.n
    ELSE IF node.kind = "BoolOp" THEN node.n - 1
    ELSE 0

\* C1: the complexity a ComplexityVisitor ends with for a function node is
\* 1 + the number of descendant if, for, while, except-handler, with, assert
\* and ternary nodes + the filters of the descendant comprehensions + the
\* operands less one of the descendant boolean combinations; nodes of other
\* kinds add nothing, and the result is at least 1.
C1_ComplexityCountsDecisionPoints ==
    pc = "visited" =>
        LET D == Descendants(tree, 1) IN
        /\ complexity =
              1 + Cardinality(OfKind(tree, D, {"If", "For", "While", "ExceptHandler",
                                              "With", "Assert", "IfExp"}))
                + SumN(tree, OfKind(tree, D, {"comprehension"}))
                + (SumN(tree, OfKind(tree, D, {"BoolOp"}))
                   - Cardinality(OfKind(tree, D, {"BoolOp"})))
        /\ complexity >= 1

\* C1 witness: a function holding a 3-operand boolean combination, a
\* comprehension with 2 filters and an async with has been measured as 5.
C1_Witness ==
    /\ pc = "visited" /\ complexity = 5
    /\ \E i, j, k \in DOMAIN tree :
          /\ tree[i].kind = "BoolOp" /\ tree[i].n = 3
          /\ tree[j].kind = "comprehension" /\ tree[j].n = 2 /\ tree[j].parent = i
          /\ tree[k].kind = "AsyncWith"

\* a report of the metrics, as opposed to an error record
Successful == pc = "done" /\ "functions" \in DOMAIN result

RECURSIVE SumOfCc(_, _)
\* the sum of the cc values at a set of positions of a list of entries
SumOfCc(fm, S) ==
    IF S = {} THEN 0
    ELSE LET k == CHOOSE x \in S : TRUE IN fm[k].cc + SumOfCc(fm, S \ {k})

\* C4: in a successful report totalComplexity is the sum of the cc values of
\* the entries of functions, maxComplexity is their maximum, and
\* maxComplexity is 0 exactly when functionCount is 0.
C4_TotalsMatchFunctions ==
    Successful =>
        LET fm == result.functions IN
        /\ result.totalComplexity = SumOfCc(fm, DOMAIN fm)
        /\ \A k \in DOMAIN fm : fm[k].cc <= result.maxComplexity
        /\ fm # <<>> => \E k \in DOMAIN fm : fm[k].cc = result.maxComplexity
        /\ (result.maxComplexity = 0) <=> (result.functionCount = 0)

\* C4 witness: a report of two functions, the first the more complex.
C4_Witness ==
    /\ Successful /\ result.functionCount = 2
    /\ result.functions[1].cc > result.functions[2].cc
    /\ result.maxComplexity = result.functions[1].cc

\* the node an entry of functions was made from
NodeOfEntry(e) == CHOOSE i \in DOMAIN tree : tree[i].lineno = e.line

Depth(t, i) == Cardinality(Ancestors(t, i))

\* C5: in a successful report complexFunctions holds the names of the entries
\* of functions whose cc is above 10 (10 itself excluded), once per entry and
\* in the order of the functions list, which is the order of the tree walk:
\* level by level, left to right.
C5_ComplexFunctionsAboveThreshold ==
    Successful =>
        LET fm == result.functions
            over == SetToSeq({k \in DOMAIN fm : fm[k].cc > 10})
        IN
        /\ result.complexFunctions = [j \in 1..Len(over) |-> fm[over[j]].name]
        /\ \A j, k \in DOMAIN fm :
              j < k =>
                LET a == NodeOfEntry(fm[j])
                    b == NodeOfEntry(fm[k])
                IN \/ Depth(tree, a) < Depth(tree, b)
                   \/ Depth(tree, a) = Depth(tree, b) /\ a < b

\* C5 witness: a report with a function of complexity exactly 10, left out,
\* and one above 10, listed.
C5_Witness ==
    /\ Successful
    /\ \E k \in DOMAIN result.functions : result.functions[k].cc = 10
    /\ Len(result.complexFunctions) = 1

\* the number of line ends of a text, plus one for an unfinished last line
RawLineCount(s) ==
    Cardinality({i \in DOMAIN s : s[i] = "\n"})
    + (IF s # <<>> /\ s[Len(s)] # "\n" THEN 1 ELSE 0)

FunctionNodes(t) == OfKind(t, DOMAIN t, {"FunctionDef", "AsyncFunctionDef"})

RECURSIVE SumWeight(_, _)
\* the sum of the weights of a set of nodes
SumWeight(t, S) ==
    IF S = {} THEN 0
    ELSE LET d == CHOOSE x \in S : TRUE IN Weight(t[d]) + SumWeight(t, S \ {d})

RECURSIVE SumEnclosed(_, _)
\* over a set of nodes, the weight of each times the number of functions
\* that enclose it
SumEnclosed(t, S) ==
    IF S = {} THEN 0
    ELSE LET d == CHOOSE x \in S : TRUE
         IN Weight(t[d]) * Cardinality(Ancestors(t, d) \cap FunctionNodes(t))
            + SumEnclosed(t, S \ {d})

C6_AlwaysReturnsRecord ==
    /\ pc # "raised"
    /\ pc \in {"parse", "collected", "scored"} =>
          file.exists /\ file.readable /\ file.parse = "ok"
    /\ pc = "done" =>
          IF ~file.exists
          THEN result = [error |-> <<"File not found: ", file.path>>]
          ELSE IF ~file.readable
          THEN result = [error |-> <<"Cannot read file: ", file.detail>>]
          ELSE IF file.parse # "ok"
          THEN /\ "error" \in DOMAIN result /\ "loc" \in DOMAIN result
               /\ result.error[1] = "Syntax error: "
          ELSE Successful

(***************************************************************************)
(* Properties of the CohesionAnalyzer.                                     *)
(***************************************************************************)
\* the function-like nodes among a node's proper ancestors
EnclosingFunctions(t, i) == Ancestors(t, i) \cap FunctionNodes(t)

\* the name of the innermost function-like node in S, None when S is empty;
\* in pre-order the innermost of a node's ancestors has the greatest index
InnermostName(t, S) ==
    IF S = {} THEN None
    ELSE t[CHOOSE i \in S : \A j \in S : j <= i].name

\* the method a node lies in
MethodOf(t, i) == InnermostName(t, EnclosingFunctions(t, i))

\* the method the traversal is in while it visits the children of node i
MethodAt(t, i) ==
    InnermostName(t, (EnclosingFunctions(t, i) \cup {i}) \cap FunctionNodes(t))

\* a step that starts the visit of a self.<field> access
VisitsSelfAttribute ==
    /\ pc = "visit" /\ pc' = "visit"
    /\ Len(stack') = Len(stack) + 1
    /\ tree[stack'[Len(stack')].node].kind = "Attribute"
    /\ tree[stack'[Len(stack')].node].id = "self"

\* the marker is that of the innermost enclosing method, none outside one
C9_MarkerIsInnermostMethod ==
    /\ pc = "visit" =>
          analyzer.current_method =
             (IF stack = <<>> THEN None ELSE MethodAt(tree, stack[Len(stack)].node))
    /\ pc = "scored" => analyzer.current_method = None

\* an access is recorded under the innermost enclosing method only, and not
\* at all outside a method
C9_RecordedUnderInnermost ==
    VisitsSelfAttribute =>
        LET c == stack'[Len(stack')].node
            m == MethodOf(tree, c)
        IN IF m = None
           THEN /\ analyzer'.instance_vars = analyzer.instance_vars
                /\ analyzer'.method_vars = analyzer.method_vars
           ELSE /\ analyzer'.instance_vars = analyzer.instance_vars \cup {tree[c].name}
                /\ analyzer'.method_vars =
                      [analyzer.method_vars EXCEPT ![m] = @ \cup {tree[c].name}]

\* C9: during the traversal of a class the current-method marker behaves as
\* a stack: inside a method-like node it names that node, on leaving the
\* node it is again what it was before entering (none once the class is
\* done); a self.<field> access is recorded only under the innermost
\* enclosing method-like node, and changes nothing while the marker is none.
C9_MarkerBehavesAsStack ==
    [](C9_MarkerIsInnermostMethod) /\ [][C9_RecordedUnderInnermost]_vars

\* C9 witness: in method f, after the nested function g has been left, the
\* marker is f again and self.a has been recorded under f, not under g.
C9_Witness ==
    /\ pc = "visit" /\ Len(tree) = 4
    /\ tree[2].name = "f" /\ tree[3].name = "g" /\ tree[3].parent = 2
    /\ tree[4].kind = "Attribute" /\ tree[4].id = "self" /\ tree[4].parent = 2
    /\ analyzer.current_method = "f"
    /\ DOMAIN analyzer.method_vars = {"f", "g"}
    /\ analyzer.method_vars["f"] = {tree[4].name}
    /\ analyzer.method_vars["g"] = {}

\* C10: at every point of the traversal the keys of the per-method map are
\* the method names seen, and the instance-field set is the union of the
\* per-method field sets.
C10_FieldsAreUnionOfMethodFields ==
    /\ DOMAIN analyzer.method_vars = analyzer.methods
    /\ analyzer.instance_vars =
          UNION {analyzer.method_vars[m] : m \in DOMAIN analyzer.method_vars}

\* the fields the methods named m access: the self.<field> nodes of the tree
\* whose innermost enclosing method-like node is named m
FieldsOf(t, m) ==
    {t[i].name : i \in {j \in DOMAIN t : /\ t[j].kind = "Attribute"
                                        /\ t[j].id = "self"
                                        /\ MethodOf(t, j) = m}}

MethodNames(t) == {t[i].name : i \in FunctionNodes(t)}

FieldNames(t) == UNION {FieldsOf(t, m) : m \in MethodNames(t)}

RECURSIVE SumFields(_, _)
\* over a set of method names, the number of fields each accesses
SumFields(t, M) ==
    IF M = {} THEN 0
    ELSE LET m == CHOOSE x \in M : TRUE
         IN Cardinality(FieldsOf(t, m)) + SumFields(t, M \ {m})

\* C2: for a class with at least one method and one instance field the
\* cohesion score is in (0.0, 1.0], and is 1.0 only when every method
\* touches every field.
C2_ScoreInUnitInterval ==
    (pc = "scored" /\ analyzer.methods # {} /\ analyzer.instance_vars # {}) =>
        /\ score.num > 0
        /\ score.num <= score.den
        /\ score.num = score.den =>
              \A m \in MethodNames(tree) : FieldsOf(tree, m) = FieldNames(tree)

\* C3: the score is 1.0 for a class without methods or without instance-field
\* accesses, and otherwise (sum over the methods of the number of distinct
\* self-fields the method accesses) / (M * F); so M methods accessing all F
\* fields give 1.0 and M methods accessing one field each, all different,
\* give 1/F.
C3_ScoreIsUsesOverPairs ==
    pc = "scored" =>
        LET M == Cardinality(MethodNames(tree))
            F == Cardinality(FieldNames(tree))
        IN IF M = 0 \/ F = 0
           THEN score.num = score.den
           ELSE score.num * (M * F) = SumFields(tree, MethodNames(tree)) * score.den

====
